---- MODULE Spec2Model ----
(***************************************************************************)
(* The two attrition dashboards, src/sales_dashboard.py and                *)
(* src/dashboard_hr.py, as one state machine.  A run of either script is   *)
(* a chain of steps: load_data, the sidebar (selection and filtering),     *)
(* then the tabs in source order.  A table is a sequence of records, a     *)
(* record is a function from column names to values.                       *)
(***************************************************************************)
EXTENDS Integers, Sequences, FiniteSets, TLC

VARIABLES
    app,          \* which script runs: "sales" or "hr"
    sourceExists, \* whether the CSV path resolves to a file
    columns,      \* the header of the CSV: the set of column names it has
    csv,          \* the rows of the CSV
    df,           \* the module-level df, a record [loaded, rows]
    selection,    \* the sidebar widgets' values
    filtered_df,  \* the module-level filtered_df
    views,        \* what each view of the page was given, by name
    pc,           \* position of the script
    err           \* the exception that ended the script, or "none"

vars == <<app, sourceExists, columns, csv, df, selection, filtered_df, views, pc, err>>

(***************************************************************************)
(* Bounds of the model.                                                    *)
(***************************************************************************)
MaxRows == 2        \* rows of the CSV
MaxEdits == 1       \* sidebar widgets moved off their default
MaxMissing == 1     \* columns absent from the CSV header
MaxAge == 60        \* greatest Age the binning specification tries
MaxPromo == 7       \* greatest YearsSinceLastPromotion the promotion specification tries
MaxYears == 12      \* greatest YearsAtCompany the tenure specification tries

(***************************************************************************)
(* Column values.  String columns list their values in the order pandas    *)
(* sorts them (groupby sorts its keys).                                    *)
(***************************************************************************)
DepartmentValues == <<"Research & Development", "Sales">>
JobRoleValues == <<"Research Scientist", "Sales Executive", "Sales Representative">>
GenderValues == <<"Female", "Male">>
YesNoValues == <<"No", "Yes">>
BusinessTravelValues == <<"Travel_Rarely">>
LevelValues == <<1, 2>>

RequiredColumns ==
    {"Attrition", "Age", "Department", "JobRole", "Gender", "MaritalStatus",
     "YearsAtCompany", "MonthlyIncome", "JobSatisfaction", "OverTime",
     "BusinessTravel", "WorkLifeBalance", "YearsSinceLastPromotion",
     "DistanceFromHome", "JobLevel", "TotalWorkingYears"}

NaN == "NaN"    \* the missing label pd.cut gives a value outside every interval

Range(s) == {s[i] : i \in 1..Len(s)}

Max(S) == CHOOSE x \in S : \A y \in S : y <= x
Min(S) == CHOOSE x \in S : \A y \in S : x <= y

(***************************************************************************)
(* pd.cut(values, bins=bins, labels=labels, right=False).                  *)
(***************************************************************************)
\* pd.cut raises ValueError when the edges do not strictly increase.
CutRaises(bins) == \E i \in 1..(Len(bins) - 1) : bins[i + 1] <= bins[i]

\* A mutant of Cut: right-closed intervals (right=True, the default of pd.cut).
CutRightClosed(x, bins, labels) ==
    IF \E i \in 1..Len(labels) : bins[i] < x /\ x <= bins[i + 1]
    THEN labels[CHOOSE i \in 1..Len(labels) : bins[i] < x /\ x <= bins[i + 1]]
    ELSE NaN

\* The label of x: interval i is [bins[i], bins[i+1]); NaN outside all of them.
Cut(x, bins, labels) ==
    IF \E i \in 1..Len(labels) : bins[i] <= x /\ x < bins[i + 1]
    THEN labels[CHOOSE i \in 1..Len(labels) : bins[i] <= x /\ x < bins[i + 1]]
    ELSE NaN

bins_age == <<18, 30, 40, 50, 60>>
labels_age == <<"20s", "30s", "40s", "50s+">>
bins_years(t) == <<-1, 2, 5, 10, Max({r.YearsAtCompany : r \in Range(t)}) + 1>>
labels_years == <<"0-2 Years", "3-5 Years", "6-10 Years", "11+ Years">>

Attrition_Numeric(x) == IF x = "Yes" THEN 1 ELSE 0

(***************************************************************************)
(* sales_dashboard.load_data, after read_csv has succeeded.                *)
(***************************************************************************)
\* The columns load_data reads, in the order it reads them.
LoadReads == <<"Attrition", "Age", "YearsAtCompany">>

\* The first column of reads that the table lacks (the KeyError), or "none".
FirstMissing(reads, cols) ==
    IF \E i \in 1..Len(reads) : reads[i] \notin cols
    THEN reads[Min({i \in 1..Len(reads) : reads[i] \notin cols})]
    ELSE "none"

\* The derived columns load_data has assigned when it returns or raises.
LoadDerived(cols, t) ==
    IF "Attrition" \notin cols THEN {}
    ELSE IF "Age" \notin cols THEN {"Attrition_Numeric"}
    ELSE IF "YearsAtCompany" \notin cols \/ CutRaises(bins_years(t))
         THEN {"Attrition_Numeric", "Age_Group"}
    ELSE {"Attrition_Numeric", "Age_Group", "YearsAtCompany_Group"}

LoadRows(t) ==
    [i \in 1..Len(t) |->
        [c \in (DOMAIN t[i]) \cup {"Attrition_Numeric", "Age_Group", "YearsAtCompany_Group"} |->
            IF c = "Attrition_Numeric" THEN Attrition_Numeric(t[i].Attrition)
            ELSE IF c = "Age_Group" THEN Cut(t[i].Age, bins_age, labels_age)
            ELSE IF c = "YearsAtCompany_Group"
                 THEN Cut(t[i].YearsAtCompany, bins_years(t), labels_years)
            ELSE t[i][c]]]

NoTable == [loaded |-> FALSE, rows |-> <<>>, derived |-> {}]

(***************************************************************************)
(* Rates.  A rate is the float (count / total) * 100; the model keeps it   *)
(* as the exact fraction num/den, or as nan for 0/0.  For the counts of    *)
(* a table, equal fractions are equal floats and the order of the          *)
(* fractions is the order of the floats.                                   *)
(***************************************************************************)
RateNaN == [nan |-> TRUE, num |-> 0, den |-> 1]
RateZero == [nan |-> FALSE, num |-> 0, den |-> 1]
RateOf(count, total) ==
    IF total = 0 THEN RateNaN ELSE [nan |-> FALSE, num |-> 100 * count, den |-> total]

RateEq(a, b) == a.nan = b.nan /\ (~a.nan => a.num * b.den = b.num * a.den)
RateLess(a, b) == ~a.nan /\ ~b.nan /\ a.num * b.den < b.num * a.den
RateIsPercent(a) == ~a.nan /\ 0 <= a.num /\ a.num <= 100 * a.den

RECURSIVE SumOf(_, _)
SumOf(t, col) == IF t = <<>> THEN 0 ELSE Head(t)[col] + SumOf(Tail(t), col)

\* calculate_attrition_rate(df)
calculate_attrition_rate(t) ==
    IF Len(t) = 0 THEN RateZero
    ELSE RateOf(SumOf(t, "Attrition_Numeric"), Len(t))

(***************************************************************************)
(* groupby(column, observed=...)[outcome].agg(total='count',               *)
(* attrition_count='sum').  levels lists the keys in result order: the     *)
(* declared categories of a categorical column, the sorted values of a     *)
(* plain one.  Rows whose key is NaN belong to no group (dropna=True).     *)
(* keepEmpty is observed=False on a categorical column: a category         *)
(* without rows is a group of count 0.                                     *)
(***************************************************************************)
GroupRow(t, column, outcome, k) ==
    LET g == SelectSeq(t, LAMBDA r : r[column] = k)
    IN  [key |-> k, total |-> Len(g), attrition_count |-> SumOf(g, outcome)]

GroupBy(t, column, outcome, levels, keepEmpty) ==
    SelectSeq([i \in 1..Len(levels) |-> GroupRow(t, column, outcome, levels[i])],
              LAMBDA g : keepEmpty \/ g.total > 0)

\* attrition_summary['Attrition Rate (%)'] = attrition_count / total * 100
WithRate(summary) ==
    [i \in 1..Len(summary) |->
        [key |-> summary[i].key, total |-> summary[i].total,
         attrition_count |-> summary[i].attrition_count,
         rate |-> RateOf(summary[i].attrition_count, summary[i].total)]]

\* A mutant of sort_values: the rows are left in groupby order.
sort_values_none(s) == s

\* sort_values(by='Attrition Rate (%)', ascending=False): descending, rows of
\* equal rate in their given order, NaN rates last in their given order.
sort_values(s) ==
    LET Before(i, j) ==
            \/ ~s[i].rate.nan /\ s[j].rate.nan
            \/ RateLess(s[j].rate, s[i].rate)
            \/ RateEq(s[i].rate, s[j].rate) /\ i < j
        Rank(i) == 1 + Cardinality({j \in 1..Len(s) : Before(j, i)})
    IN  [k \in 1..Len(s) |-> s[CHOOSE i \in 1..Len(s) : Rank(i) = k]]

labels_promo == <<"0 Years", "1-2 Years", "3-5 Years", "6+ Years">>
bins_promo(t) == <<-1, 0, 2, 5, Max({r.YearsSinceLastPromotion : r \in Range(t)}) + 1>>

IsCategorical(column) == column \in {"Age_Group", "YearsAtCompany_Group", "Promo_Group"}

\* The keys of a grouping column in groupby's result order.
Levels(column) ==
    CASE column = "Age_Group" -> labels_age
      [] column = "YearsAtCompany_Group" -> labels_years
      [] column = "Promo_Group" -> labels_promo
      [] column = "Department" -> DepartmentValues
      [] column = "OverTime" -> YesNoValues
      [] column = "BusinessTravel" -> BusinessTravelValues
      [] OTHER -> LevelValues

None == [kind |-> "None", site |-> "create_rate_bar_chart", column |-> "", n |-> 0,
         summary |-> <<>>, rows |-> <<>>]

\* create_rate_bar_chart(df, column, title): None for an empty table, else the
\* figure; summary is attrition_summary and rows is the frame given to px.bar.
create_rate_bar_chart(t, column) ==
    IF Len(t) = 0 THEN None
    ELSE LET attrition_summary ==
                 WithRate(GroupBy(t, column, "Attrition_Numeric", Levels(column),
                                  IsCategorical(column)))
         IN  [kind |-> "chart", site |-> "create_rate_bar_chart", column |-> column,
              n |-> Len(t),
              summary |-> attrition_summary, rows |-> sort_values(attrition_summary)]

(***************************************************************************)
(* Views.  A view is what one st.* call of a tab was given: a chart with   *)
(* its group rows, a notice (st.warning / st.info / st.error), a table     *)
(* or the metrics.                                                         *)
(***************************************************************************)
\* column is the grouping column of a chart of group rows, "" otherwise; n is the
\* number of rows of the table the view was computed from.
View(kind, site, column, n, summary, rows) ==
    [kind |-> kind, site |-> site, column |-> column, n |-> n,
     summary |-> summary, rows |-> rows]

Notice == View("notice", "", "", 0, <<>>, <<>>)
Plot(site, t) == View("chart", site, "", Len(t), <<>>, <<>>)

\* `if fig: st.plotly_chart(fig) else: st.warning(...)`
Show(fig) == IF fig.kind = "None" THEN Notice ELSE fig

NoErr == [kind |-> "none", arg |-> ""]
Raised(kind, arg) == [kind |-> kind, arg |-> arg]

\* One statement group of a tab: the columns it reads in order, the exception
\* it raises by itself ("none" if it does not), and the view it renders
\* (name "" when it renders nothing).
Step(name, reads, raises, view) ==
    [name |-> name, reads |-> reads, raises |-> raises, view |-> view]

RECURSIVE RunSteps(_, _, _)
\* Runs the steps in order until one raises: the views rendered and the error.
RunSteps(steps, cols, vs) ==
    IF steps = <<>> THEN [views |-> vs, err |-> NoErr]
    ELSE LET s == Head(steps)
             missing == FirstMissing(s.reads, cols)
         IN  IF missing # "none" THEN [views |-> vs, err |-> Raised("KeyError", missing)]
             ELSE IF s.raises # "none" THEN [views |-> vs, err |-> Raised(s.raises, s.name)]
             ELSE RunSteps(Tail(steps), cols,
                           IF s.name = "" THEN vs ELSE (s.name :> s.view) @@ vs)

\* The columns a tab assigns before it groups by them.
TabColumns == {"Promo_Group", "AgeGroup", "YearsGroup"}

\* The columns a tab finds: the header, what load_data derived and what the tab
\* itself has assigned (a step that reads the source column precedes its use).
Has(cols, derived) == cols \cup derived \cup TabColumns

(***************************************************************************)
(* The rows of the CSV.                                                    *)
(***************************************************************************)
MkRow(age, years, promo, dept, role, gender, attrition, overtime, level, satisfaction) ==
    [Age |-> age, YearsAtCompany |-> years, YearsSinceLastPromotion |-> promo,
     Department |-> dept, JobRole |-> role, Gender |-> gender,
     Attrition |-> attrition, OverTime |-> overtime, JobLevel |-> level,
     JobSatisfaction |-> satisfaction, BusinessTravel |-> "Travel_Rarely",
     WorkLifeBalance |-> 1]

RoleOf(dept) == IF dept = "Sales" THEN "Sales Executive" ELSE "Research Scientist"
\* A record promoted on joining (short tenure) or six years ago (long tenure).
PromoOf(years) == IF years < 6 THEN 0 ELSE 6

\* Rows that differ in age, tenure, department and outcome.
RowsMain ==
    {MkRow(a, y, PromoOf(y), d, RoleOf(d), "Male", at, "No", 1, 1) :
        a \in {35, 60}, y \in {1, 11}, d \in Range(DepartmentValues),
        at \in Range(YesNoValues)}

\* Rows that differ in job level, job satisfaction and outcome.
RowsMatrix ==
    {MkRow(35, 11, 6, "Sales", "Sales Executive", "Male", at, "No", jl, js) :
        jl \in Range(LevelValues), js \in Range(LevelValues), at \in Range(YesNoValues)}

\* Rows that differ in age only, from the least age of the first interval up.
RowsAge ==
    {MkRow(a, 11, 6, "Sales", "Sales Executive", "Male", "No", "No", 1, 1) :
        a \in 18..MaxAge}

\* Rows that differ in department and outcome.
RowsSchema ==
    {MkRow(35, 11, 6, d, RoleOf(d), "Male", at, "No", 1, 1) :
        d \in Range(DepartmentValues), at \in Range(YesNoValues)}

\* Sales rows that differ in the years since the last promotion and in outcome.
RowsPromo ==
    {MkRow(35, 11, p, "Sales", "Sales Executive", "Male", at, "No", 1, 1) :
        p \in 0..MaxPromo, at \in Range(YesNoValues)}

\* Rows that differ in tenure only.
RowsTenure ==
    {MkRow(35, y, 0, "Research & Development", "Research Scientist", "Male", "No", "No", 1, 1) :
        y \in 0..MaxYears}

\* Rows that differ in overtime, department and outcome.
RowsOverTime ==
    {MkRow(35, 11, 6, d, RoleOf(d), "Male", at, ot, 1, 1) :
        d \in Range(DepartmentValues), at \in Range(YesNoValues),
        ot \in Range(YesNoValues)}

Tables(rows) == UNION {[1..n -> rows] : n \in 1..MaxRows}

NoSelection == [departments |-> {}, job_roles |-> {}, gender |-> "All", age_range |-> <<0, 0>>]

\* The headers the model tries: at most MaxMissing required columns absent.
Headers(maxMissing) ==
    {RequiredColumns \ m : m \in {x \in SUBSET RequiredColumns : Cardinality(x) <= maxMissing}}

InitWith(tables, headers) ==
    /\ app \in {"sales", "hr"}
    /\ \/ sourceExists = TRUE /\ csv \in tables
       \/ sourceExists = FALSE /\ csv = <<>>
    /\ columns \in headers
    /\ df = NoTable
    /\ selection = NoSelection
    /\ filtered_df = <<>>
    /\ views = <<>>
    /\ pc = "load"
    /\ err = NoErr

Init == InitWith(Tables(RowsMain), Headers(0))
InitMatrix == InitWith(Tables(RowsMatrix), Headers(0))
InitSchema == InitWith(Tables(RowsSchema), Headers(MaxMissing))
InitBin == InitWith(Tables(RowsAge), Headers(0)) /\ app = "sales" /\ sourceExists
InitPromo == InitWith(Tables(RowsPromo), Headers(0))
InitTenure == InitWith(Tables(RowsTenure), Headers(0))
InitOverTime == InitWith(Tables(RowsOverTime), Headers(0))

\* The script ends with an uncaught exception.
Raise(e) ==
    /\ pc' = "raised"
    /\ err' = e

(***************************************************************************)
(* sales_dashboard.py                                                      *)
(***************************************************************************)
\* df = load_data(path): read_csv, then the derived columns.
load_data ==
    /\ app = "sales" /\ pc = "load"
    /\ IF ~sourceExists
       THEN Raise(Raised("FileNotFoundError", "read_csv")) /\ df' = NoTable
       ELSE IF FirstMissing(LoadReads, columns) # "none"
       THEN /\ Raise(Raised("KeyError", FirstMissing(LoadReads, columns)))
            /\ df' = [NoTable EXCEPT !.derived = LoadDerived(columns, csv)]
       ELSE IF CutRaises(bins_years(csv))
       THEN /\ Raise(Raised("ValueError", "bins_years"))
            /\ df' = [NoTable EXCEPT !.derived = LoadDerived(columns, csv)]
       ELSE /\ df' = [loaded |-> TRUE, rows |-> LoadRows(csv),
                      derived |-> LoadDerived(columns, csv)]
            /\ pc' = "sidebar"
            /\ err' = err
    /\ UNCHANGED <<app, sourceExists, columns, csv, selection, filtered_df, views>>

\* The slider stops the model tries: the ages that occur in the table.
AgeStops(t) == {r.Age : r \in Range(t)}

all_departments(t) == {r.Department : r \in Range(t)}
all_job_roles(t, deps) == {r.JobRole : r \in {x \in Range(t) : x.Department \in deps}}

\* A mutant of Filter: the age bounds are exclusive.
FilterExclusive(t, sel) ==
    SelectSeq(t, LAMBDA r :
        /\ r.Department \in sel.departments
        /\ r.JobRole \in sel.job_roles
        /\ r.Age > sel.age_range[1]
        /\ r.Age < sel.age_range[2]
        /\ (sel.gender # "All" => r.Gender = sel.gender))

\* df[(Department in ...) & (JobRole in ...) & (Age >= lo) & (Age <= hi)], then the
\* gender filter unless 'All'.
Filter(t, sel) ==
    SelectSeq(t, LAMBDA r :
        /\ r.Department \in sel.departments
        /\ r.JobRole \in sel.job_roles
        /\ r.Age >= sel.age_range[1]
        /\ r.Age <= sel.age_range[2]
        /\ (sel.gender # "All" => r.Gender = sel.gender))

\* How many widgets are off their default.
Edits(sel, default) ==
    Cardinality({w \in {"departments", "job_roles", "gender", "age_range"} :
                    sel[w] # default[w]})

SalesDefault(t, deps) ==
    [departments |-> all_departments(t), job_roles |-> all_job_roles(t, deps),
     gender |-> "All",
     age_range |-> <<Min({r.Age : r \in Range(t)}), Max({r.Age : r \in Range(t)})>>]

\* The sidebar widgets and the filter.
Sidebar ==
    /\ app = "sales" /\ pc = "sidebar"
    /\ LET t == df.rows
           missing == FirstMissing(<<"Department", "JobRole", "Age">>, columns)
       IN  IF missing # "none"
           THEN Raise(Raised("KeyError", missing)) /\ UNCHANGED <<selection, filtered_df>>
           ELSE \E deps \in SUBSET all_departments(t) :
                \E roles \in SUBSET all_job_roles(t, deps) :
                \E g \in {"All", "Male", "Female"} :
                \E lo \in AgeStops(t), hi \in AgeStops(t) :
                    LET sel == [departments |-> deps, job_roles |-> roles,
                                gender |-> g, age_range |-> <<lo, hi>>]
                    IN  /\ lo <= hi
                        /\ Edits(sel, SalesDefault(t, deps)) <= MaxEdits
                        /\ selection' = sel
                        /\ IF g # "All" /\ "Gender" \notin columns
                           THEN Raise(Raised("KeyError", "Gender")) /\ filtered_df' = <<>>
                           ELSE /\ filtered_df' = Filter(t, sel)
                                /\ pc' = "tab1"
                                /\ err' = err
    /\ UNCHANGED <<app, sourceExists, columns, csv, df, views>>

\* A tab: its steps run, the script goes on to `next` unless a step raised.
RunTab(steps, next) ==
    LET out == RunSteps(steps, Has(columns, df.derived), views)
    IN  /\ views' = out.views
        /\ IF out.err = NoErr THEN pc' = next /\ err' = err ELSE Raise(out.err)
        /\ UNCHANGED <<app, sourceExists, columns, csv, df, selection, filtered_df>>

\* One call site of create_rate_bar_chart followed by `if fig:`.
RateChart(name, t, column) ==
    Step(name, IF Len(t) = 0 THEN <<>> ELSE <<column, "Attrition_Numeric">>, "none",
         Show(create_rate_bar_chart(t, column)))

\* A px.pie / px.box / px.sunburst over t, guarded by `if not t.empty`.
GuardedPlot(name, t, reads) ==
    IF Len(t) = 0 THEN Step(name, <<>>, "none", Notice)
    ELSE Step(name, reads, "none", Plot(name, t))

Metrics(t) ==
    View("metrics", "calculate_attrition_rate", "", Len(t), <<>>,
         <<[key |-> "all", total |-> Len(t),
            attrition_count |-> SumOf(t, "Attrition_Numeric"),
            rate |-> calculate_attrition_rate(t)]>>)

Tab1 ==
    /\ app = "sales" /\ pc = "tab1"
    /\ RunTab(<<Step("metrics",
                     IF Len(filtered_df) = 0 THEN <<>>
                     ELSE <<"Attrition_Numeric", "JobSatisfaction", "MonthlyIncome">>,
                     "none", Metrics(filtered_df)),
                GuardedPlot("fig_pie", filtered_df, <<"Attrition">>),
                RateChart("fig_dept_rate", filtered_df, "Department")>>, "tab2")

\* A two-key groupby on plain columns: the observed pairs, sorted by row key and
\* then by column key.  observed=False has no effect on a plain column.
GroupBy2(t, rowKey, colKey, outcome, rowLevels, colLevels) ==
    LET n == Len(colLevels)
        Pair(i) == <<rowLevels[((i - 1) \div n) + 1], colLevels[((i - 1) % n) + 1]>>
        Cell(k) ==
            LET g == SelectSeq(t, LAMBDA r : r[rowKey] = k[1] /\ r[colKey] = k[2])
            IN  [key |-> k, total |-> Len(g), attrition_count |-> SumOf(g, outcome)]
    IN  SelectSeq([i \in 1..(Len(rowLevels) * n) |-> Cell(Pair(i))],
                  LAMBDA g : g.total > 0)

\* df_treemap: total='count', attrition_rate=lambda s: (s.sum() / len(s)) * 100
\* if len(s) > 0 else 0
df_treemap(t) ==
    LET groups == GroupBy2(t, "JobLevel", "JobSatisfaction", "Attrition_Numeric",
                           LevelValues, LevelValues)
    IN  [i \in 1..Len(groups) |->
            [key |-> groups[i].key, total |-> groups[i].total,
             attrition_count |-> groups[i].attrition_count,
             rate |-> IF groups[i].total > 0
                      THEN RateOf(groups[i].attrition_count, groups[i].total)
                      ELSE RateZero]]

Tab2 ==
    /\ app = "sales" /\ pc = "tab2"
    /\ RunTab(<<RateChart("fig_age", filtered_df, "Age_Group"),
                GuardedPlot("fig_sunburst", filtered_df,
                            <<"Gender", "MaritalStatus", "Attrition_Numeric">>),
                IF Len(filtered_df) = 0 THEN Step("fig_treemap", <<>>, "none", Notice)
                ELSE Step("fig_treemap",
                          <<"JobLevel", "JobSatisfaction", "Attrition_Numeric">>, "none",
                          View("chart", "df_treemap", "", Len(filtered_df),
                               df_treemap(filtered_df), df_treemap(filtered_df))),
                RateChart("fig_years", filtered_df, "YearsAtCompany_Group")>>, "tab3")

\* The OverTime note of tab 3: the two rates, shown when rate_no > 0.
OverTimeInfo(t) ==
    LET ot_yes == SelectSeq(t, LAMBDA r : r.OverTime = "Yes")
        ot_no == SelectSeq(t, LAMBDA r : r.OverTime = "No")
        rate_yes == calculate_attrition_rate(ot_yes)
        rate_no == calculate_attrition_rate(ot_no)
    IN  IF RateLess(RateZero, rate_no)
        THEN Step("ot_info", <<>>, "none",
                  View("info", "calculate_attrition_rate", "", Len(t), <<>>,
                       <<[key |-> "Yes", total |-> Len(ot_yes),
                          attrition_count |-> SumOf(ot_yes, "Attrition_Numeric"),
                          rate |-> rate_yes],
                         [key |-> "No", total |-> Len(ot_no),
                          attrition_count |-> SumOf(ot_no, "Attrition_Numeric"),
                          rate |-> rate_no]>>))
        ELSE Step("", <<>>, "none", Notice)

Tab3 ==
    /\ app = "sales" /\ pc = "tab3"
    /\ RunTab(<<RateChart("fig_driver_OverTime", filtered_df, "OverTime"),
                IF Len(filtered_df) = 0 THEN Step("", <<>>, "none", Notice)
                ELSE OverTimeInfo(filtered_df),
                RateChart("fig_driver_BusinessTravel", filtered_df, "BusinessTravel"),
                RateChart("fig_driver_WorkLifeBalance", filtered_df, "WorkLifeBalance"),
                GuardedPlot("fig_income", filtered_df, <<"Attrition", "MonthlyIncome">>)>>,
              "tab4")

\* df_sales with the temporary Promo_Group column.
WithPromoGroup(t) ==
    [i \in 1..Len(t) |->
        [c \in (DOMAIN t[i]) \cup {"Promo_Group"} |->
            IF c = "Promo_Group"
            THEN Cut(t[i].YearsSinceLastPromotion, bins_promo(t), labels_promo)
            ELSE t[i][c]]]

\* A call site of create_rate_bar_chart whose figure goes to st.plotly_chart unchecked.
SalesChart(name, t, column) ==
    Step(name, <<column, "Attrition_Numeric">>, "none", create_rate_bar_chart(t, column))

\* A mutant of df_sales: the Sales rows of filtered_df.
df_sales_filtered == SelectSeq(filtered_df, LAMBDA r : r.Department = "Sales")

\* df_sales = df[df['Department'] == 'Sales']: the Sales rows of the whole table.
df_sales == SelectSeq(df.rows, LAMBDA r : r.Department = "Sales")

\* Tab 4: the Sales deep dive, on the rows of df (not of filtered_df).
Tab4 ==
    /\ app = "sales" /\ pc = "tab4"
    /\ IF Len(df_sales) = 0
           THEN RunTab(<<Step("sales_deep_dive", <<"Department">>, "none", Notice)>>, "tab5")
           ELSE RunTab(
                <<Step("sales_metrics", <<"Department", "MonthlyIncome", "YearsAtCompany">>,
                       "none", Metrics(df_sales)),
                  Step("fig_sales_pie", <<"Attrition">>, "none", Plot("fig_sales_pie", df_sales)),
                  SalesChart("fig_ot_sales", df_sales, "OverTime"),
                  Step("fig_income_sales", <<"Attrition", "MonthlyIncome">>, "none",
                       Plot("fig_income_sales", df_sales)),
                  SalesChart("fig_bt_sales", df_sales, "BusinessTravel"),
                  SalesChart("fig_js_sales", df_sales, "JobSatisfaction"),
                  SalesChart("fig_yac_sales", df_sales, "YearsAtCompany_Group"),
                  Step("fig_dfh_sales", <<"Attrition", "DistanceFromHome">>, "none",
                       Plot("fig_dfh_sales", df_sales)),
                  Step("", <<"YearsSinceLastPromotion">>,
                       IF CutRaises(bins_promo(df_sales)) THEN "ValueError" ELSE "none",
                       Notice),
                  SalesChart("fig_promo_sales", WithPromoGroup(df_sales), "Promo_Group"),
                  SalesChart("fig_wlb_sales", df_sales, "WorkLifeBalance"),
                  Step("fig_twy_sales", <<"Attrition", "TotalWorkingYears">>, "none",
                       Plot("fig_twy_sales", df_sales)),
                  SalesChart("fig_jl_sales", df_sales, "JobLevel")>>, "tab5")

\* The search box values the model tries; "" is the empty box.
SearchQueries == {"", "Sales"}

\* column.str.contains(query, case=False) over the object (string) columns.
Contains(r, query) ==
    /\ query = "Sales"
    /\ \/ r.Department = "Sales"
       \/ r.JobRole \in {"Sales Executive", "Sales Representative"}

Tab5 ==
    /\ app = "sales" /\ pc = "tab5"
    /\ \E search_query \in SearchQueries :
        LET search_results == SelectSeq(filtered_df, LAMBDA r : Contains(r, search_query))
        IN  RunTab(<<Step("search", <<>>, "none",
                          IF search_query # "" /\ Len(search_results) > 0
                          THEN View("table", "search_results", "", Len(search_results),
                                    <<>>, <<>>)
                          ELSE Notice)>>, "tab6")

Tab6 ==
    /\ app = "sales" /\ pc = "tab6"
    /\ RunTab(<<Step("raw_data", <<>>, "none",
                     IF Len(filtered_df) > 0
                     THEN View("table", "filtered_df", "", Len(filtered_df), <<>>, <<>>)
                     ELSE Notice)>>, "done")

(***************************************************************************)
(* dashboard_hr.py                                                         *)
(***************************************************************************)
\* load_data(path): the table, or None after st.error when the file is missing.
hr_load_data ==
    /\ app = "hr" /\ pc = "load"
    /\ IF sourceExists
       THEN /\ df' = [loaded |-> TRUE, rows |-> csv, derived |-> {}]
            /\ views' = views
       ELSE /\ df' = NoTable
            /\ views' = ("load_error" :> Notice) @@ views
    /\ pc' = "hr_check"
    /\ UNCHANGED <<app, sourceExists, columns, csv, selection, filtered_df, err>>

\* A mutant of HrStops: the script goes on with whatever load_data returned.
HrNeverStops(d) == FALSE

\* `if df is None: st.stop()`
HrStops(d) == ~d.loaded

hr_rows(t) ==
    [i \in 1..Len(t) |->
        [c \in (DOMAIN t[i]) \cup {"Attrition_numeric"} |->
            IF c = "Attrition_numeric" THEN Attrition_Numeric(t[i].Attrition)
            ELSE t[i][c]]]

\* The None check and the Attrition_numeric column.
HrCheck ==
    /\ app = "hr" /\ pc = "hr_check"
    /\ IF HrStops(df)
       THEN pc' = "stopped" /\ UNCHANGED <<df, err>>
       ELSE IF "Attrition" \notin columns
       THEN Raise(Raised("KeyError", "Attrition")) /\ UNCHANGED df
       ELSE /\ df' = [loaded |-> df.loaded, rows |-> hr_rows(df.rows),
                      derived |-> {"Attrition_numeric"}]
            /\ pc' = "hr_sidebar"
            /\ err' = err
    /\ UNCHANGED <<app, sourceExists, columns, csv, selection, filtered_df, views>>

HrDefault(t) ==
    [departments |-> all_departments(t), job_roles |-> {r.JobRole : r \in Range(t)},
     gender |-> "All",
     age_range |-> <<Min({r.Age : r \in Range(t)}), Max({r.Age : r \in Range(t)})>>]

HrSidebar ==
    /\ app = "hr" /\ pc = "hr_sidebar"
    /\ LET t == df.rows
           missing == FirstMissing(<<"Department", "JobRole", "Gender", "Age">>, columns)
       IN  IF missing # "none"
           THEN Raise(Raised("KeyError", missing)) /\ UNCHANGED <<selection, filtered_df>>
           ELSE \E deps \in SUBSET all_departments(t) :
                \E roles \in SUBSET {r.JobRole : r \in Range(t)} :
                \E g \in {"All"} \cup {r.Gender : r \in Range(t)} :
                \E lo \in AgeStops(t), hi \in AgeStops(t) :
                    LET sel == [departments |-> deps, job_roles |-> roles,
                                gender |-> g, age_range |-> <<lo, hi>>]
                    IN  /\ lo <= hi
                        /\ Edits(sel, HrDefault(t)) <= MaxEdits
                        /\ selection' = sel
                        /\ filtered_df' = Filter(t, sel)
                        /\ pc' = "hr_main"
                        /\ err' = err
    /\ UNCHANGED <<app, sourceExists, columns, csv, df, views>>

\* `if filtered_df.empty: st.warning(...)`: nothing else is rendered.
HrEmpty ==
    /\ app = "hr" /\ pc = "hr_main"
    /\ Len(filtered_df) = 0
    /\ RunTab(<<Step("empty_warning", <<>>, "none", Notice)>>, "done")

\* groupby(column)[Attrition_numeric].mean() * 100: the groups that have rows.
hr_rate(t, column, levels) ==
    WithRate(GroupBy(t, column, "Attrition_numeric", levels, FALSE))

HrChart(name, t, column, levels, sorted) ==
    Step(name, <<column, "Attrition_numeric">>, "none",
         View("chart", "groupby_mean", column, Len(t), hr_rate(t, column, levels),
              IF sorted THEN sort_values(hr_rate(t, column, levels))
              ELSE hr_rate(t, column, levels)))

HrMetrics(t) ==
    View("metrics", "mean", "", Len(t), <<>>,
         <<[key |-> "all", total |-> Len(t),
            attrition_count |-> SumOf(t, "Attrition_numeric"),
            rate |-> RateOf(SumOf(t, "Attrition_numeric"), Len(t))]>>)

HrTab1 ==
    /\ app = "hr" /\ pc = "hr_main"
    /\ Len(filtered_df) > 0
    /\ RunTab(<<Step("metrics", <<"Attrition_numeric", "JobSatisfaction", "MonthlyIncome">>,
                     "none", HrMetrics(filtered_df)),
                Step("fig_pie", <<"Attrition">>, "none", Plot("fig_pie", filtered_df)),
                HrChart("fig_dept_rate", filtered_df, "Department", DepartmentValues, TRUE)>>,
              "hr_tab2")

hr_labels == <<"18-29", "30-39", "40-49", "50-59">>
hr_bins_years(t) == <<0, 3, 6, 11, Max({r.YearsAtCompany : r \in Range(t)}) + 1>>
hr_labels_years == <<"0-2", "3-5", "6-10", "11+">>

\* filtered_df once tab 2 has assigned filtered_df['AgeGroup'].
WithAgeGroup(t) ==
    [i \in 1..Len(t) |->
        [c \in (DOMAIN t[i]) \cup {"AgeGroup"} |->
            IF c = "AgeGroup" THEN Cut(t[i].Age, bins_age, hr_labels) ELSE t[i][c]]]

\* filtered_df with the AgeGroup and YearsGroup columns of tab 2; the last edge of
\* the tenure bins comes from df, not from filtered_df.
WithHrGroups(t, all) ==
    [i \in 1..Len(t) |->
        [c \in (DOMAIN t[i]) \cup {"AgeGroup", "YearsGroup"} |->
            IF c = "AgeGroup" THEN Cut(t[i].Age, bins_age, hr_labels)
            ELSE IF c = "YearsGroup"
                 THEN Cut(t[i].YearsAtCompany, hr_bins_years(all), hr_labels_years)
            ELSE t[i][c]]]

\* job_level_satisfaction: the mean per observed (JobLevel, JobSatisfaction) pair.
job_level_satisfaction(t) ==
    WithRate(GroupBy2(t, "JobLevel", "JobSatisfaction", "Attrition_numeric",
                      LevelValues, LevelValues))

\* Tab 2 assigns AgeGroup and YearsGroup to filtered_df itself: the frame keeps
\* the columns assigned before a statement raised.
HrTab2 ==
    /\ app = "hr" /\ pc = "hr_tab2"
    /\ LET t == WithHrGroups(filtered_df, df.rows)
           out == RunSteps(
                  <<Step("", <<"Age">>, "none", Notice),
                    HrChart("fig_age_rate", t, "AgeGroup", hr_labels, FALSE),
                    Step("fig_sunburst", <<"Gender", "MaritalStatus", "Attrition">>, "none",
                         Plot("fig_sunburst", t)),
                    Step("fig_treemap", <<"JobLevel", "JobSatisfaction", "Attrition_numeric">>,
                         "none",
                         View("chart", "job_level_satisfaction", "", Len(t),
                              job_level_satisfaction(t), job_level_satisfaction(t))),
                    Step("", <<"YearsAtCompany">>,
                         IF CutRaises(hr_bins_years(df.rows)) THEN "ValueError" ELSE "none",
                         Notice),
                    HrChart("fig_years_rate", t, "YearsGroup", hr_labels_years, FALSE)>>,
                  Has(columns, df.derived), views)
       IN  /\ views' = out.views
           /\ IF out.err = NoErr
              THEN pc' = "hr_tab3" /\ err' = err /\ filtered_df' = t
              ELSE /\ Raise(out.err)
                   /\ filtered_df' = IF out.err = Raised("KeyError", "Age") THEN filtered_df
                                     ELSE WithAgeGroup(filtered_df)
           /\ UNCHANGED <<app, sourceExists, columns, csv, df, selection>>

\* factor_attrition_rate[... == 'Yes'][...].iloc[0] and the same for 'No': an
\* IndexError when the group is not in the frame.
OverTimeRaises(t) ==
    \/ ~\E r \in Range(t) : r.OverTime = "Yes"
    \/ ~\E r \in Range(t) : r.OverTime = "No"

\* The OverTime caption of tab 3: the two rates read off the frame of group
\* means, the caption shown when ot_no_rate > 0.
OverTimeCaption(t) ==
    LET rates == hr_rate(t, "OverTime", YesNoValues)
        ot_yes == SelectSeq(rates, LAMBDA g : g.key = "Yes")
        ot_no == SelectSeq(rates, LAMBDA g : g.key = "No")
    IN  IF OverTimeRaises(t) THEN Step("ot_caption", <<>>, "IndexError", Notice)
        ELSE IF RateLess(RateZero, ot_no[1].rate)
        THEN Step("ot_caption", <<>>, "none",
                  View("info", "groupby_mean", "", Len(t), <<>>, <<ot_yes[1], ot_no[1]>>))
        ELSE Step("", <<>>, "none", Notice)

\* `if not sub.empty:` the charts of a deep dive, else a warning.
HrDeepDive(name, sub, column, levels, reads) ==
    IF Len(sub) = 0 THEN Step(name, reads, "none", Notice)
    ELSE Step(name, reads \o <<column, "Attrition_numeric">>, "none",
              View("chart", "groupby_mean", column, Len(sub), hr_rate(sub, column, levels),
                   hr_rate(sub, column, levels)))

HrTab3 ==
    /\ app = "hr" /\ pc = "hr_tab3"
    /\ LET t == filtered_df
           sales_df == SelectSeq(t, LAMBDA r :
                           r.JobRole \in {"Sales Executive", "Sales Representative"})
           early_career_df == SelectSeq(t, LAMBDA r : r.YearsAtCompany <= 3)
       IN  RunTab(<<HrChart("fig_OverTime", t, "OverTime", YesNoValues, FALSE),
                    OverTimeCaption(t),
                    HrChart("fig_BusinessTravel", t, "BusinessTravel",
                            BusinessTravelValues, FALSE),
                    HrChart("fig_WorkLifeBalance", t, "WorkLifeBalance", LevelValues, FALSE),
                    Step("fig_income_box", <<"Attrition", "MonthlyIncome">>, "none",
                         Plot("fig_income_box", t)),
                    HrDeepDive("fig_sales_ot", sales_df, "OverTime", YesNoValues,
                               <<"JobRole">>),
                    IF Len(sales_df) = 0 THEN Step("", <<>>, "none", Notice)
                    ELSE HrChart("fig_sales_travel", sales_df, "BusinessTravel",
                                 BusinessTravelValues, FALSE),
                    HrDeepDive("fig_early_satis", early_career_df, "JobSatisfaction",
                               LevelValues, <<"YearsAtCompany">>),
                    IF Len(early_career_df) = 0 THEN Step("", <<>>, "none", Notice)
                    ELSE Step("fig_early_income", <<"Attrition", "MonthlyIncome">>, "none",
                              Plot("fig_early_income", early_career_df))>>,
                  "done")

Next ==
    \/ load_data
    \/ Sidebar
    \/ Tab1
    \/ Tab2
    \/ Tab3
    \/ Tab4
    \/ Tab5
    \/ Tab6
    \/ hr_load_data
    \/ HrCheck
    \/ HrSidebar
    \/ HrEmpty
    \/ HrTab1
    \/ HrTab2
    \/ HrTab3

\* The binning of load_data alone.
NextBin == load_data

Spec == Init /\ [][Next]_vars
SpecMatrix == InitMatrix /\ [][Next]_vars
SpecSchema == InitSchema /\ [][Next]_vars
SpecBin == InitBin /\ [][NextBin]_vars
SpecPromo == InitPromo /\ [][Next]_vars
SpecTenure == InitTenure /\ [][Next]_vars
SpecOverTime == InitOverTime /\ [][Next]_vars

(***************************************************************************)
(* Properties.                                                             *)
(***************************************************************************)
RECURSIVE SumTotals(_)
SumTotals(rows) == IF rows = <<>> THEN 0 ELSE Head(rows).total + SumTotals(Tail(rows))

\* The charts create_rate_bar_chart has produced so far.
RateCharts ==
    {v \in DOMAIN views :
        views[v].site = "create_rate_bar_chart" /\ views[v].kind = "chart"}

\* C1: in every chart of create_rate_bar_chart, whatever the grouping column, the
\* groups' total counts add up to the number of rows of the table it was given.
C1_TotalsSumToRows ==
    \A v \in RateCharts : SumTotals(views[v].summary) = views[v].n

\* The charts of the grouped-rate aggregation of sales_dashboard.py.
GroupedRateCharts ==
    {v \in DOMAIN views :
        /\ views[v].site \in {"create_rate_bar_chart", "df_treemap"}
        /\ views[v].kind = "chart"}

RateHundred == [nan |-> FALSE, num |-> 100, den |-> 1]

\* C2: every group row of the grouped-rate aggregation has a defined rate between
\* 0 and 100, which is 0 when the group has no positive row and 100 when all the
\* rows of a group are positive.
C2_RateDefined ==
    \A v \in GroupedRateCharts : \A i \in 1..Len(views[v].rows) :
        LET g == views[v].rows[i]
        IN  /\ RateIsPercent(g.rate)
            /\ g.attrition_count = 0 => RateEq(g.rate, RateZero)
            /\ (g.total > 0 /\ g.attrition_count = g.total) => RateEq(g.rate, RateHundred)

Last(s) == s[Len(s)]

\* C3: once load_data has returned, every record has an age label and a tenure
\* label, every Sales record gets a promotion label in tab 4, and the last edge
\* of each bin table is greater than the greatest value of its column.
C3_BinningTotal ==
    df.loaded /\ app = "sales" =>
        LET t == df.rows
        IN  /\ \A r \in Range(t) : r.Age_Group # NaN /\ r.YearsAtCompany_Group # NaN
            /\ Last(bins_age) > Max({r.Age : r \in Range(t)})
            /\ Last(bins_years(t)) > Max({r.YearsAtCompany : r \in Range(t)})
            /\ (df_sales # <<>> /\ ~CutRaises(bins_promo(df_sales))) =>
                   /\ \A r \in Range(WithPromoGroup(df_sales)) : r.Promo_Group # NaN
                   /\ Last(bins_promo(df_sales)) >
                          Max({r.YearsSinceLastPromotion : r \in Range(df_sales)})

\* The charts of the two-key aggregation, in either script.
MatrixCharts ==
    {v \in DOMAIN views : views[v].site \in {"df_treemap", "job_level_satisfaction"}}

\* C4: the JobLevel x JobSatisfaction aggregation has a cell for every job level
\* and every job satisfaction that occur in the table it was given, and a cell
\* without rows has rate 0.
C4_CompleteMatrix ==
    \A v \in MatrixCharts :
        \A jl \in {r.JobLevel : r \in Range(filtered_df)} :
        \A js \in {r.JobSatisfaction : r \in Range(filtered_df)} :
            \E i \in 1..Len(views[v].rows) :
                LET g == views[v].rows[i]
                IN  /\ g.key = <<jl, js>>
                    /\ g.total = 0 => RateEq(g.rate, RateZero)

\* C5: a group without rows that any call site reports has the rate that
\* calculate_attrition_rate gives a table without rows.
C5_OneEmptyGroupConvention ==
    \A v \in DOMAIN views : \A i \in 1..Len(views[v].rows) :
        views[v].rows[i].total = 0 =>
            RateEq(views[v].rows[i].rate, calculate_attrition_rate(<<>>))

\* The sidebar has been applied and has left no row.
EmptySelection == selection # NoSelection /\ Len(filtered_df) = 0

\* C6: when the selection matches no row the script raises nothing, and every
\* view is a notice or the metrics of calculate_attrition_rate with rate 0.0.
C6_EmptyNeverRaises ==
    EmptySelection =>
        /\ pc # "raised"
        /\ \A v \in DOMAIN views :
            \/ views[v].kind = "notice"
            \/ /\ views[v].kind = "metrics"
               /\ views[v].n = 0
               /\ RateEq(views[v].rows[1].rate, RateZero)

\* C7: when the CSV path resolves to no file, no table is loaded, no selection is
\* made, nothing is filtered and no view but the error notice of dashboard_hr is
\* rendered: sales_dashboard ends with the FileNotFoundError of read_csv,
\* dashboard_hr shows the error and stops.
C7_DataNotFound ==
    ~sourceExists =>
        /\ ~df.loaded /\ df.rows = <<>>
        /\ selection = NoSelection /\ filtered_df = <<>>
        /\ \A v \in DOMAIN views : v = "load_error" /\ views[v].kind = "notice"
        /\ pc \in {"load", "raised", "hr_check", "stopped"}
        /\ pc = "raised" => app = "sales" /\ err.kind = "FileNotFoundError"
        /\ pc \in {"hr_check", "stopped"} => app = "hr" /\ "load_error" \in DOMAIN views

C7_Witness == ~sourceExists /\ app = "hr" /\ pc = "stopped" /\ "load_error" \in DOMAIN views

\* C8: when the CSV lacks a required column, load_data ends with a SchemaError
\* before it has derived any column, and returns no table.
C8_SchemaChecked ==
    (sourceExists /\ columns # RequiredColumns /\ pc # "load") =>
        /\ err.kind = "SchemaError"
        /\ ~df.loaded
        /\ df.derived = {}

\* C9: load_data labels every age from 18 to 29 '20s', from 30 to 39 '30s', from
\* 40 to 49 '40s' and from 50 to 59 '50s+'.
C9_AgeLabels ==
    df.loaded =>
        \A r \in Range(df.rows) :
            /\ (18 <= r.Age /\ r.Age < 30) => r.Age_Group = "20s"
            /\ (30 <= r.Age /\ r.Age < 40) => r.Age_Group = "30s"
            /\ (40 <= r.Age /\ r.Age < 50) => r.Age_Group = "40s"
            /\ (50 <= r.Age /\ r.Age < 60) => r.Age_Group = "50s+"

C9_Witness ==
    /\ df.loaded
    /\ \E r \in Range(df.rows) : r.Age = 29 /\ r.Age_Group = "20s"
    /\ \E r \in Range(df.rows) : r.Age = 50 /\ r.Age_Group = "50s+"

\* The position of a label in its declared order.
LabelIndex(labels, k) == CHOOSE i \in 1..Len(labels) : labels[i] = k

InLabelOrder(rows, labels) ==
    \A i \in 1..Len(rows), j \in 1..Len(rows) :
        i < j => LabelIndex(labels, rows[i].key) < LabelIndex(labels, rows[j].key)

\* Non-increasing rates, the rows without a rate last.
InRateOrder(rows) ==
    \A i \in 1..Len(rows), j \in 1..Len(rows) :
        i < j => /\ ~RateLess(rows[i].rate, rows[j].rate)
                 /\ rows[i].rate.nan => rows[j].rate.nan

BucketLabels(column) ==
    CASE column = "AgeGroup" -> hr_labels
      [] column = "YearsGroup" -> hr_labels_years
      [] OTHER -> Levels(column)

\* The charts grouped by a bucket column, in either script.
BucketCharts ==
    {v \in DOMAIN views :
        /\ views[v].kind = "chart"
        /\ views[v].column \in {"Age_Group", "YearsAtCompany_Group", "Promo_Group",
                               "AgeGroup", "YearsGroup"}}

\* C10 as stated: the group rows given to a chart by a bucket column are in the
\* declared label order.
C10_LabelOrder ==
    \A v \in BucketCharts : InLabelOrder(views[v].rows, BucketLabels(views[v].column))

\* C10 as amended: groupby yields the groups of a bucket column in the declared
\* label order; dashboard_hr gives them to the chart in that order, and
\* create_rate_bar_chart gives the same groups to the chart by descending rate,
\* the groups without a rate last.
C10_RateOrder ==
    \A v \in BucketCharts :
        /\ InLabelOrder(views[v].summary, BucketLabels(views[v].column))
        /\ Range(views[v].rows) = Range(views[v].summary)
        /\ Len(views[v].rows) = Len(views[v].summary)
        /\ app = "hr" => views[v].rows = views[v].summary
        /\ app = "sales" => InRateOrder(views[v].rows)

\* A chart of create_rate_bar_chart whose later bucket comes first.
C10_Witness ==
    \E v \in BucketCharts :
        /\ app = "sales"
        /\ views[v].column = "YearsAtCompany_Group"
        /\ Len(views[v].rows) = 4
        /\ views[v].rows[1].key = "11+ Years"
        /\ views[v].rows[2].key = "0-2 Years"

\* The widgets' values when none has been touched.
SidebarDefault ==
    IF app = "sales" THEN SalesDefault(df.rows, all_departments(df.rows))
    ELSE HrDefault(df.rows)

\* The step that applies the sidebar filter.
FilterStep == pc \in {"sidebar", "hr_sidebar"} /\ pc' \in {"tab1", "hr_main"}

\* C11: the step that applies the sidebar filter leaves the loaded table as it
\* was, and with every widget at its default the filtered table is the loaded
\* table row for row.
C11_DefaultFilterIsIdentity ==
    [][FilterStep =>
          /\ df' = df
          /\ selection' = SidebarDefault => filtered_df' = df.rows]_vars

\* The filter has been applied with the widgets at their defaults.
C11_Witness ==
    /\ pc \in {"tab1", "hr_main"}
    /\ selection = SidebarDefault
    /\ Len(df.rows) = MaxRows
    /\ filtered_df = df.rows

\* The bucket a promotion label names: 0, 1-2, 3-5, 6 and more.
PromoBucket(v) == IF v = 0 THEN 1 ELSE IF v <= 2 THEN 2 ELSE IF v <= 5 THEN 3 ELSE 4

\* C12: in the promotion chart of the Sales deep dive, the group of each label
\* counts the Sales records whose YearsSinceLastPromotion the label names:
\* 0 for '0 Years', 1 or 2 for '1-2 Years', 3 to 5 for '3-5 Years', 6 or more
\* for '6+ Years'.
C12_PromoLabels ==
    "fig_promo_sales" \in DOMAIN views =>
        \A i \in 1..Len(labels_promo) :
            \E j \in 1..Len(views["fig_promo_sales"].summary) :
                LET g == views["fig_promo_sales"].summary[j]
                IN  /\ g.key = labels_promo[i]
                    /\ g.total = Cardinality({k \in 1..Len(df_sales) :
                            PromoBucket(df_sales[k].YearsSinceLastPromotion) = i})

\* The bucket a tenure label names: 0-2, 3-5, 6-10, 11 and more.
TenureBucket(v) == IF v <= 2 THEN 1 ELSE IF v <= 5 THEN 2 ELSE IF v <= 10 THEN 3 ELSE 4

\* The rows of dashboard_hr that tab 2 has given a YearsGroup.
YearsGroupRows == {r \in Range(filtered_df) : "YearsGroup" \in DOMAIN r}

\* C13: both scripts put a record of tenure v in the bucket its label names, the
\* first for 0 to 2 years, the second for 3 to 5, the third for 6 to 10 and the
\* fourth for 11 and more: load_data of sales_dashboard in YearsAtCompany_Group
\* and tab 2 of dashboard_hr in YearsGroup.
C13_TenureBuckets ==
    /\ (app = "sales" /\ df.loaded) =>
            \A r \in Range(df.rows) :
                r.YearsAtCompany_Group = labels_years[TenureBucket(r.YearsAtCompany)]
    /\ app = "hr" =>
            \A r \in YearsGroupRows :
                r.YearsGroup = hr_labels_years[TenureBucket(r.YearsAtCompany)]

\* The OverTime notes of the two scripts: the st.info of sales_dashboard and the
\* st.caption of dashboard_hr, each holding the 'Yes' rate and the 'No' rate.
OverTimeNotes == {"ot_info", "ot_caption"} \cap DOMAIN views

\* C14: for a filtered table that has rows, the OverTime view of either script
\* ends without an error, also when no row has OverTime 'Yes' or none has 'No',
\* and the note with the Yes/No ratio is shown only when the rate of 'No' is
\* greater than 0.
C14_OverTimeCompletes ==
    /\ (Len(filtered_df) > 0 /\ pc = "raised") => err.arg \notin {"fig_driver_OverTime",
                                                                "fig_OverTime", "ot_info",
                                                                "ot_caption", "OverTime"}
    /\ \A v \in OverTimeNotes : RateLess(RateZero, views[v].rows[2].rate)

\* The views of tab 4, the Sales deep dive of sales_dashboard.py.
SalesViews ==
    {v \in DOMAIN views :
        v \in {"sales_metrics", "fig_sales_pie", "fig_ot_sales", "fig_income_sales",
               "fig_bt_sales", "fig_js_sales", "fig_yac_sales", "fig_dfh_sales",
               "fig_promo_sales", "fig_wlb_sales", "fig_twy_sales", "fig_jl_sales"}}

\* The Sales rows that pass the sidebar filters.
FilteredSales == SelectSeq(filtered_df, LAMBDA r : r.Department = "Sales")

\* The Sales rows of the loaded table.
LoadedSales == SelectSeq(df.rows, LAMBDA r : r.Department = "Sales")

\* C15 as stated: every row counted in a statistic of the Sales deep dive is a
\* Sales row that passes the active sidebar filters.
C15_DeepDiveFiltered ==
    \A v \in SalesViews : views[v].n <= Len(FilteredSales)

\* C15 as amended: every statistic of the Sales deep dive of sales_dashboard.py
\* counts all the Sales rows of the loaded table, whatever the sidebar selects,
\* and the deep dive is replaced by one notice when the loaded table has no
\* Sales row.
C15_DeepDiveWholeTable ==
    /\ \A v \in SalesViews :
           /\ views[v].n = Len(LoadedSales)
           /\ views[v].site = "create_rate_bar_chart" =>
                  SumTotals(views[v].summary) = Len(LoadedSales)
           /\ views[v].kind = "metrics" => views[v].rows[1].total = Len(LoadedSales)
    /\ "sales_deep_dive" \in DOMAIN views => Len(LoadedSales) = 0

\* The deep dive has counted a Sales row that the sidebar has filtered out.
C15_Witness ==
    /\ app = "sales" /\ pc = "done"
    /\ "fig_jl_sales" \in DOMAIN views
    /\ Len(FilteredSales) < Len(LoadedSales)
    /\ views["sales_metrics"].n = Len(LoadedSales)

====
